---- MODULE Spec2Model ----
(***************************************************************************)
(* Model of github_application_builder: the /task endpoint (src/main.py),  *)
(* the background pipeline background_job, the GitHub adapter              *)
(* (src/core/github.py) and the evaluation delivery (src/core/send_eval.py).*)
(*                                                                         *)
(* Granularity: one action per awaited call of background_job.  The        *)
(* adapter functions of src/core/github.py contain no suspension point     *)
(* (PyGithub and requests are synchronous), so inside one event loop each  *)
(* adapter call is one atomic step.  The only calls that really suspend    *)
(* are the Content Generator (agent.run) and the delivery (httpx post,     *)
(* asyncio.sleep).                                                         *)
(***************************************************************************)
EXTENDS Integers, Sequences, FiniteSets, TLC

(* ------------------------------ bounds --------------------------------- *)
\* number of submissions to POST /task
MaxJobs == 2
\* longest list of files the Content Generator returns
MaxFiles == 2
\* minutes a run is watched waiting for the Content Generator
MaxElapsed == 10
\* number of calls the Repository Host answers with an error
MaxFaults == 1
\* largest max_retries a direct caller passes to send_evaluation
MaxRetriesArg == 7

(* ------------------------- program constants --------------------------- *)
\* main.py:74, "timed out after 9 minutes": the deadline the pipeline documents
DEADLINE_MINUTES == 9
\* main.py:98, send_evaluation(..., max_retries=5, ...)
JOB_MAX_RETRIES == 5
\* send_eval.py:56, min(2 ** attempt, 16)
BACKOFF_CAP == 16
\* send_eval.py:30, response.status_code == 200
HTTP_OK == 200
\* main.py:163, HTTPException(status_code=403)
HTTP_FORBIDDEN == 403

Jobs == 1..MaxJobs
Tasks == {"demo", "blog"}
GFORM_SECRET == "good-secret"
Secrets == {GFORM_SECRET, "bad-secret"}
OWNER == "owner"

Paths == {"index.html", "README.md"}
Contents == {"<h1>hi</h1>"}
\* files a generator-side tool may leave in the scratch directory
AssetNames == {"chart.png", ".DS_Store"}
AssetContent == "<bytes>"
\* files of a scratch directory, by their path below it
LocalFiles ==
    AssetNames \cup {"assets/logo.png", "node_modules/x.js", ".cache/tmp.png",
                     "docs/__pycache__/m.pyc"}
AllPaths == Paths \cup LocalFiles

\* Python None, the key a dict lacks, a path the repository lacks
PyNone == "<None>"

\* model.py:9, 12-14  the fields background_job only copies to the payload
\* or hands to send_evaluation
Emails == {"a@example.com"}
Rounds == {1, 2}
Nonces == {PyNone, "nonce-1"}
EvaluationUrls == {"https://eval.example/a", "https://eval.example/b"}

\* model.py:4-6  an Attachment: its name and its url.  The url is kept by
\* the parts the pattern of agent.py:239 tells apart: whether it starts with
\* "data:", its media type, whether ";base64," follows, and whether the
\* data after it decodes
DataUri(name, media, decodes) ==
    [name |-> name, data_prefix |-> TRUE, media |-> media, base64 |-> TRUE,
     decodes |-> decodes]

PngAttachment == DataUri("logo.png", "image/png", TRUE)
CsvAttachment == DataUri("data.csv", "text/csv", TRUE)
\* a plain link: no "data:" prefix
LinkAttachment ==
    [name |-> "link.png", data_prefix |-> FALSE, media |-> "", base64 |-> FALSE,
     decodes |-> FALSE]

\* model.py:17  attachments: Optional[List[Attachment]] = None
NoAttachments == [none |-> TRUE, items |-> <<>>]
Attachments(items) == [none |-> FALSE, items |-> items]

AttachmentLists ==
    {NoAttachments,
     Attachments(<<>>),
     Attachments(<<PngAttachment, CsvAttachment>>),
     Attachments(<<LinkAttachment, PngAttachment>>)}
Missing == "<missing>"
AbsentFile == "<absent>"
InitialReadme == "<auto_init>"

OutcomeKeys == {"repo_url", "commit_sha", "pages_url"}

(* ------------------------------- state --------------------------------- *)
VARIABLES
    pc,           \* pc[j]: where submission/job j stands
    client_task,  \* client_task[j]: the ClientTask of submission j
    response,     \* response[j]: HTTP status answered to the submitter (0: none yet)
    public,       \* public[t]: the directory public/<task> on local disk
    host,         \* host[name]: the repository of that name on the Repository Host
    faults,       \* number of calls the host has answered with an error
    last,         \* last[j]: what the latest adapter call of run j returned
    degraded,     \* degraded[j]: some adapter call of run j reported a failure
    list_file,    \* list_file[j]: the generated files the commit loop has yet to visit
    new_data,     \* new_data[j]: the outcome mapping
    payload,      \* payload[j]: the delivery payload
    max_retries,  \* max_retries[j]: argument of send_evaluation
    attempt,      \* attempt[j]: loop variable of send_evaluation
    status,       \* status[j]: what the current attempt's send yielded
    sends,        \* sends[j]: number of client.post calls made
    sleeps,       \* sleeps[j]: the delays slept, in order
    result,       \* result[j]: what send_evaluation gave its caller
    posted,       \* posted[j]: the distinct (url, json) pairs send_evaluation posted
    elapsed,      \* elapsed[j]: minutes run j has been awaiting the Content Generator
    stalled,      \* stalled[j]: the Content Generator will never answer run j
    running       \* the run that holds the event loop (0: the loop is free)

vars == <<pc, client_task, response, public, host, faults, last, degraded,
          list_file, new_data, payload, max_retries, attempt, status, sends, sleeps,
          result, posted, elapsed, stalled, running>>

jobVars == <<list_file, new_data, payload>>
hostVars == <<host, faults>>
logVars == <<last, degraded>>
sendVars == <<max_retries, attempt, status, sends, sleeps, result, posted>>
timeVars == <<elapsed, stalled>>

(* ------------------------------ helpers -------------------------------- *)
Min(a, b) == IF a < b THEN a ELSE b

RECURSIVE Pow2(_)
Pow2(n) == IF n = 0 THEN 1 ELSE 2 * Pow2(n - 1)

\* main.py:55   new_repo_name = "test_" + client_task.task
\* mutant: one repository name for every task
RepoName_Fixed(t) == "test_repo"

RepoName(t) == "test_" \o t

RepoNames == {RepoName(t) : t \in Tasks}

\* model.py:8-17  ClientTask
ClientTasks ==
    [secret : Secrets, task : Tasks, attachments : AttachmentLists,
     email : Emails, round : Rounds, nonce : Nonces,
     evaluation_url : EvaluationUrls]

NoTask == [secret |-> "", task |-> "", attachments |-> NoAttachments,
           email |-> "", round |-> 0, nonce |-> PyNone, evaluation_url |-> ""]

\* a repository the host does not hold
NoRepo == [exists |-> FALSE, files |-> [p \in AllPaths |-> AbsentFile],
           commits |-> 0, pages |-> FALSE]

\* dict.get(key): None for a key the dict lacks
Get(d, k) == IF d[k] = Missing THEN PyNone ELSE d[k]

\* str(x) of a str or of None
Str(v) == IF v = PyNone THEN "None" ELSE v

EmptyDict == [k \in OutcomeKeys |-> Missing]

\* main.py:69-73 and 78-82
FallbackData == [k \in OutcomeKeys |-> "..."]

\* a Python value with its type: str(x) gives a str, int(x) an int
PyStr(text) == [type |-> "str", repr |-> text]
PyInt(n) == [type |-> "int", repr |-> ToString(n)]

NoPayload == [email |-> "", task |-> "", round |-> [type |-> "", repr |-> ""],
              nonce |-> "", repo_url |-> "", commit_sha |-> "", pages_url |-> ""]

\* what a call returned: its "message", its "count" when the dict has one
Result(op, message, fault) ==
    [op |-> op, message |-> message, fault |-> fault, count |-> Missing]

NoResult == Result("", "", FALSE)

\* the host may answer a call with an error while the budget lasts
Faults == IF faults < MaxFaults THEN BOOLEAN ELSE {FALSE}

Count(fault) == IF fault THEN faults + 1 ELSE faults

(* ------------------- Repository Host (GitHub), as called ---------------- *)
\* the blob sha GitHub reports for a file: a function of its content
BlobSha(c) == "sha:" \o c

CommitSha(name, n) == name \o "@" \o ToString(n)

\* user.create_repo(name=..., private=False, auto_init=True): the new
\* repository starts with a README.md and one commit
HostCreateRepo(h, name) ==
    IF h[name].exists
    THEN [ok |-> FALSE, host |-> h]
    ELSE [ok |-> TRUE,
          host |-> [h EXCEPT ![name] =
                      [exists |-> TRUE,
                       files |-> [p \in AllPaths |->
                                    IF p = "README.md" THEN InitialReadme
                                    ELSE AbsentFile],
                       commits |-> 1,
                       pages |-> FALSE]]]

HostPut(h, name, path, content) ==
    [h EXCEPT ![name].files[path] = content,
              ![name].commits = h[name].commits + 1]

\* repo.create_file(path, message, content, branch="main"): refused for a
\* path that exists
HostCreateFile(h, name, path, content) ==
    IF h[name].exists /\ h[name].files[path] = AbsentFile
    THEN [ok |-> TRUE, host |-> HostPut(h, name, path, content)]
    ELSE [ok |-> FALSE, host |-> h]

\* repo.update_file(path, message, content, sha, branch="main"): refused
\* unless sha is the blob sha of what the path holds now
HostUpdateFile(h, name, path, content, sha) ==
    IF /\ h[name].exists
       /\ h[name].files[path] # AbsentFile
       /\ sha = BlobSha(h[name].files[path])
    THEN [ok |-> TRUE, host |-> HostPut(h, name, path, content)]
    ELSE [ok |-> FALSE, host |-> h]

\* POST /repos/{owner}/{repo}/pages: the status the host answers
HostPagesStatus(h, name, fault) ==
    IF fault THEN 500
    ELSE IF ~h[name].exists THEN 404
    ELSE IF h[name].pages THEN 409
    ELSE 201

(* ---------------------- adapter, src/core/github.py -------------------- *)
\* Each adapter function returns [host |-> the host afterwards,
\* message |-> the "message" of the dict it returns].  fault: the host
\* answers this call with an error (GithubException / RequestException).

\* mutant: the lookup of github.py:34-37 is left out and the repository is
\* always created
create_new_repo_NoLookup(h, name, fault) ==
    IF fault
    THEN [host |-> h, message |-> "failed"]
    ELSE LET c == HostCreateRepo(h, name)
         IN  [host |-> c.host,
              message |-> IF c.ok THEN "created" ELSE "failed"]

create_new_repo(h, name, fault) ==
    IF fault
    THEN [host |-> h, message |-> "failed"]
    ELSE IF h[name].exists
    THEN [host |-> h, message |-> "already exist"]
    ELSE LET c == HostCreateRepo(h, name)
         IN  [host |-> c.host,
              message |-> IF c.ok THEN "created" ELSE "failed"]

\* mutant: the lookup of github.py:152-163 is left out and the file is
\* always created
create_or_update_file_CreateOnly(h, name, path, content, fault) ==
    IF fault \/ ~h[name].exists
    THEN [host |-> h, message |-> "failed"]
    ELSE LET c == HostCreateFile(h, name, path, content)
         IN  [host |-> c.host,
              message |-> IF c.ok THEN "created" ELSE "failed"]

create_or_update_file(h, name, path, content, fault) ==
    IF fault \/ ~h[name].exists
    THEN [host |-> h, message |-> "failed"]
    ELSE LET existing == h[name].files[path]
         IN  IF existing # AbsentFile
             THEN LET u == HostUpdateFile(h, name, path, content,
                                          BlobSha(existing))
                  IN  [host |-> u.host,
                       message |-> IF u.ok THEN "updated" ELSE "failed"]
             ELSE LET c == HostCreateFile(h, name, path, content)
                  IN  [host |-> c.host,
                       message |-> IF c.ok THEN "created" ELSE "failed"]

\* mutant: a failure deletes the repository
enable_github_pages_Rollback(h, name, fault) ==
    LET code == HostPagesStatus(h, name, fault)
    IN  IF code = 201
        THEN [host |-> [h EXCEPT ![name].pages = TRUE], message |-> "enabled"]
        ELSE IF code = 409
        THEN [host |-> h, message |-> "already enabled"]
        ELSE [host |-> [h EXCEPT ![name] = NoRepo], message |-> "failed"]

\* mutant: a conflict answer is taken for a failure
enable_github_pages_ConflictFails(h, name, fault) ==
    LET code == HostPagesStatus(h, name, fault)
    IN  IF code = 201
        THEN [host |-> [h EXCEPT ![name].pages = TRUE], message |-> "enabled"]
        ELSE [host |-> h, message |-> "failed"]

enable_github_pages(h, name, fault) ==
    LET code == HostPagesStatus(h, name, fault)
    IN  IF code = 201
        THEN [host |-> [h EXCEPT ![name].pages = TRUE], message |-> "enabled"]
        ELSE IF code = 409
        THEN [host |-> h, message |-> "already enabled"]
        ELSE [host |-> h, message |-> "failed"]

\* mutant: the identifier is that of the oldest commit
get_output_data_FirstCommit(h, name, fault) ==
    IF fault \/ ~h[name].exists
    THEN EmptyDict
    ELSE [k \in OutcomeKeys |->
            CASE k = "repo_url" ->
                   "https://github.com/" \o OWNER \o "/" \o name
              [] k = "commit_sha" ->
                   IF h[name].commits > 0
                   THEN CommitSha(name, 1)
                   ELSE "no commits"
              [] k = "pages_url" ->
                   "https://" \o OWNER \o ".github.io/" \o name \o "/"]

\* mutant: a host error after the repository was read gives a mapping with
\* the repository URL alone
get_output_data_Partial(h, name, fault) ==
    IF ~h[name].exists
    THEN EmptyDict
    ELSE [k \in OutcomeKeys |->
            CASE k = "repo_url" ->
                   "https://github.com/" \o OWNER \o "/" \o name
              [] k = "commit_sha" ->
                   IF fault THEN Missing
                   ELSE IF h[name].commits > 0
                   THEN CommitSha(name, h[name].commits)
                   ELSE "no commits"
              [] k = "pages_url" ->
                   IF fault THEN Missing
                   ELSE "https://" \o OWNER \o ".github.io/" \o name \o "/"]

get_output_data(h, name, fault) ==
    IF fault \/ ~h[name].exists
    THEN EmptyDict
    ELSE [k \in OutcomeKeys |->
            CASE k = "repo_url" ->
                   "https://github.com/" \o OWNER \o "/" \o name
              [] k = "commit_sha" ->
                   IF h[name].commits > 0
                   THEN CommitSha(name, h[name].commits)
                   ELSE "no commits"
              [] k = "pages_url" ->
                   "https://" \o OWNER \o ".github.io/" \o name \o "/"]

\* github.py:216, skip_patterns
SKIP_PATTERNS == {".git", "__pycache__", ".DS_Store", "node_modules",
                  ".env", ".venv"}

\* filename.startswith('.')
StartsWithDot(f) == f \in {".git", ".DS_Store", ".env", ".venv"}

\* github.py:218, 231-233  the directories os.walk goes through to reach
\* the file, and the name of the file
DirsOf(f) ==
    CASE f = "assets/logo.png" -> {"assets"}
      [] f = "node_modules/x.js" -> {"node_modules"}
      [] f = ".cache/tmp.png" -> {".cache"}
      [] f = "docs/__pycache__/m.pyc" -> {"docs", "__pycache__"}
      [] OTHER -> {}

BaseName(f) ==
    CASE f = "assets/logo.png" -> "logo.png"
      [] f = "node_modules/x.js" -> "x.js"
      [] f = ".cache/tmp.png" -> "tmp.png"
      [] f = "docs/__pycache__/m.pyc" -> "m.pyc"
      [] OTHER -> f

\* mutant: the walk goes into every directory
Uploadable_NoPrune(files) ==
    {f \in files :
        ~(StartsWithDot(BaseName(f)) \/ BaseName(f) \in SKIP_PATTERNS)}

\* github.py:219-227: the files of the walk that are not skipped: the walk
\* does not go into a directory of skip_patterns, and a file whose name
\* starts with '.' or is in skip_patterns is passed over
Uploadable(files) ==
    {f \in files :
        /\ DirsOf(f) \cap SKIP_PATTERNS = {}
        /\ ~(StartsWithDot(BaseName(f)) \/ BaseName(f) \in SKIP_PATTERNS)}

\* github.py:237-274 for every file of `files`: read it, then update or
\* create it in the repository
RECURSIVE UploadEach(_, _, _)
UploadEach(h, name, files) ==
    IF files = {} THEN h
    ELSE LET f == CHOOSE x \in files : TRUE
             r == create_or_update_file(h, name, f, AssetContent, FALSE)
         IN  UploadEach(r.host, name, files \ {f})

\* okfiles: the files whose read and upsert the host lets succeed;
\* uploaded_count counts exactly those
uploade_all_public_file_from_local_directory(h, name, dir, okfiles, fault) ==
    IF fault \/ ~h[name].exists
    THEN [host |-> h, message |-> "failed", count |-> Missing]
    ELSE [host |-> UploadEach(h, name, okfiles),
          message |-> "uploaded",
          count |-> ToString(Cardinality(okfiles))]

(* --------------------- delivery, src/core/send_eval.py ------------------ *)
\* what one client.post can yield: a response status, or an exception
SendOutcomes == {"200", "500", "TimeoutException", "NetworkError",
                 "Exception"}

\* mutant: every response counts as success, whatever its status
AttemptVerdict_AnyStatus(o) ==
    CASE o \in {"200", "500"} -> "return_true"
      [] OTHER -> "retry"

\* mutant: the last handler, except Exception, is missing
AttemptVerdict_Unhandled(o) ==
    CASE o = "200" -> "return_true"
      [] o = "500" -> "retry"
      [] o = "TimeoutException" -> "retry"
      [] o = "NetworkError" -> "retry"
      [] OTHER -> "raise"

\* send_eval.py:30-52: what the loop body does with the outcome of the post.
\* "return_true": return True; "retry": log and fall through to the backoff;
\* "raise": the exception leaves send_evaluation
AttemptVerdict(o) ==
    CASE o = "200" -> "return_true"
      [] o = "500" -> "retry"
      [] o = "TimeoutException" -> "retry"
      [] o = "NetworkError" -> "retry"
      [] OTHER -> "retry"

\* mutant: one iteration too many
InRange_OffByOne(a, m) == a <= m

\* send_eval.py:18   for attempt in range(max_retries)
InRange(a, m) == a < m

\* send_eval.py:55   if attempt < max_retries - 1
SleepsAfter(a, m) == a < m - 1

\* mutant: the cap is missing
BackoffDelay_NoCap(a) == Pow2(a)

\* send_eval.py:56   delay = min(2 ** attempt, 16)
BackoffDelay(a) == Min(Pow2(a), BACKOFF_CAP)

(* -------------------------------- Init --------------------------------- *)
GenFiles == [path : Paths, content : Contents]

\* the lists of FileContent the Content Generator may return
GenLists == UNION {[1..n -> GenFiles] : n \in 0..MaxFiles}

\* what a generator-side tool leaves in the scratch directory: nothing, or
\* a chart together with the .DS_Store the OS adds
AssetSets == {{}, AssetNames}

NoDir == [exists |-> FALSE, files |-> {}]

InitCommon ==
    /\ client_task = [j \in Jobs |-> NoTask]
    /\ response = [j \in Jobs |-> 0]
    /\ public = [t \in Tasks |-> NoDir]
    /\ host = [n \in RepoNames |-> NoRepo]
    /\ faults = 0
    /\ last = [j \in Jobs |-> NoResult]
    /\ degraded = [j \in Jobs |-> FALSE]
    /\ list_file = [j \in Jobs |-> <<>>]
    /\ new_data = [j \in Jobs |-> EmptyDict]
    /\ payload = [j \in Jobs |-> NoPayload]
    /\ attempt = [j \in Jobs |-> 0]
    /\ status = [j \in Jobs |-> ""]
    /\ sends = [j \in Jobs |-> 0]
    /\ sleeps = [j \in Jobs |-> <<>>]
    /\ result = [j \in Jobs |-> "pending"]
    /\ posted = [j \in Jobs |-> {}]
    /\ elapsed = [j \in Jobs |-> 0]
    /\ stalled = [j \in Jobs |-> FALSE]
    /\ running = 0

\* the service is up, nothing was submitted, the host holds no repository
Init ==
    /\ InitCommon
    /\ pc = [j \in Jobs |-> "none"]
    /\ max_retries = [j \in Jobs |-> 0]

(* ------------------------- src/main.py: task --------------------------- *)
\* mutant: the secret is not compared
SecretOk_Always(s) == TRUE

\* main.py:160   if client_task.secret != GFORM_SECRET
SecretOk(s) == s = GFORM_SECRET

\* The submissions to POST /task differ in what task and background_job
\* branch on: the secret, the task name, the attachments.  The other
\* fields are only copied (main.py:88-91, 98); PayloadSpec varies them.
Submissions ==
    {ct \in ClientTasks :
        /\ ct.round = 1
        /\ ct.nonce = PyNone
        /\ ct.evaluation_url = "https://eval.example/a"}

\* mutant: a submission whose task another unfinished run already has is
\* dropped
add_task_Dedup(p, j) ==
    IF \E i \in Jobs \ {j} :
          /\ p[i] \notin {"none", "rejected", "done"}
          /\ client_task[i].task = client_task'[j].task
    THEN [p EXCEPT ![j] = "done"]
    ELSE [p EXCEPT ![j] = "queued"]

\* main.py:166  background_tasks.add_task(background_job, client_task):
\* one run of background_job is queued for this submission
add_task(p, j) == [p EXCEPT ![j] = "queued"]

\* main.py:151-176  POST /task
Submit(j) ==
    /\ running = 0
    /\ pc[j] = "none"
    /\ \A i \in Jobs : i < j => pc[i] # "none"
    /\ \E ct \in Submissions :
         /\ client_task' = [client_task EXCEPT ![j] = ct]
         /\ IF ~SecretOk(ct.secret)
            THEN /\ response' = [response EXCEPT ![j] = HTTP_FORBIDDEN]
                 /\ pc' = [pc EXCEPT ![j] = "rejected"]
            ELSE /\ response' = [response EXCEPT ![j] = HTTP_OK]
                 /\ pc' = add_task(pc, j)
    /\ UNCHANGED <<running, public, hostVars, logVars, jobVars, sendVars, timeVars>>

(* --------------------- src/main.py: background_job --------------------- *)
\* what an adapter call leaves in the log of run j
Logged(j, r) ==
    /\ last' = [last EXCEPT ![j] = r]
    /\ degraded' = [degraded EXCEPT ![j] = @ \/ r.message \in {"failed", "empty"}]

\* main.py:44-52  the scratch directory public/<task> is deleted if it
\* exists and made anew
StartJob(j) ==
    /\ running = 0
    /\ pc[j] = "queued"
    /\ public' = [public EXCEPT ![client_task[j].task] =
                    [exists |-> TRUE, files |-> {}]]
    /\ pc' = [pc EXCEPT ![j] = "create_repo"]
    /\ running' = j
    /\ UNCHANGED <<client_task, response, hostVars, logVars, jobVars, sendVars,
                   timeVars>>

\* main.py:55-56  await create_new_repo(new_repo_name); the result is dropped
\* mutant: a host error leaves create_new_repo as an exception, which the
\* handler of main.py:77-84 answers with the fallback
CreateRepo_Raises(j) ==
    /\ running = j
    /\ pc[j] = "create_repo"
    /\ \E fault \in Faults :
         LET r == create_new_repo(host, RepoName(client_task[j].task), fault)
         IN  /\ host' = r.host
             /\ faults' = Count(fault)
             /\ IF fault
                THEN /\ Logged(j, Result("create_new_repo", "Exception", fault))
                     /\ new_data' = [new_data EXCEPT ![j] = FallbackData]
                     /\ pc' = [pc EXCEPT ![j] = "payload"]
                ELSE /\ Logged(j, Result("create_new_repo", r.message, fault))
                     /\ pc' = [pc EXCEPT ![j] = "classify"]
                     /\ UNCHANGED new_data
    /\ UNCHANGED <<running, client_task, response, public, list_file, payload,
                   sendVars, timeVars>>

CreateRepo(j) ==
    /\ running = j
    /\ pc[j] = "create_repo"
    /\ \E fault \in Faults :
         LET r == create_new_repo(host, RepoName(client_task[j].task), fault)
         IN  /\ host' = r.host
             /\ faults' = Count(fault)
             /\ Logged(j, Result("create_new_repo", r.message, fault))
    /\ pc' = [pc EXCEPT ![j] = "classify"]
    /\ UNCHANGED <<running, client_task, response, public, jobVars, sendVars,
                   timeVars>>

\* agent.py:237-243  parse_data_uri: re.match(r'data:(.*?);base64,(.*)') and
\* base64.b64decode; raises ValueError when the pattern does not match or
\* the data does not decode
parse_data_uri(a) ==
    IF a.data_prefix /\ a.base64 /\ a.decodes
    THEN [raised |-> FALSE, media_type |-> a.media]
    ELSE [raised |-> TRUE, media_type |-> ""]

\* agent.py:244-252
SENDABLE_TYPES ==
    {"image/png", "image/jpeg", "image/jpg", "image/gif", "image/webp",
     "application/pdf", "text/plain", "text/html"}

IsSendable(a) == parse_data_uri(a).media_type \in SENDABLE_TYPES

\* agent.py:254-255  the two list comprehensions over
\* client_task.attachments: iterating None raises TypeError, and the first
\* url parse_data_uri refuses raises ValueError out of the comprehension
ClassifyAttachments(att) ==
    IF att.none
    THEN [raised |-> "TypeError", sendable |-> <<>>, all |-> <<>>]
    ELSE IF \E i \in 1..Len(att.items) : parse_data_uri(att.items[i]).raised
    THEN [raised |-> "ValueError", sendable |-> <<>>, all |-> <<>>]
    ELSE [raised |-> "",
          sendable |-> [i \in 1..Len(SelectSeq(att.items, IsSendable)) |->
                          SelectSeq(att.items, IsSendable)[i].name],
          all |-> [i \in 1..Len(att.items) |-> att.items[i].name]]

\* mutant: asyncio.TimeoutError is the only exception background_job handles
InnerTry_TimeoutOnly(e) ==
    IF e = "TimeoutError" THEN "payload" ELSE "propagated"

\* main.py:47-84, 101-102  where an exception raised inside the inner try
\* takes the run: the handler of asyncio.TimeoutError and the handler of
\* Exception both assign the fallback and fall through to the payload
\* ("propagated": the exception leaves background_job)
InnerTry(e) ==
    IF e = "TimeoutError" THEN "payload"
    ELSE IF e \in {"Exception", "TypeError", "ValueError"} THEN "payload"
    ELSE "propagated"

\* main.py:58, agent.py:198-284  get_file_content up to its only await:
\* the attachments are classified, then build_app_agent.run is awaited.  An
\* exception of the classification leaves get_file_content and is caught
\* by background_job (main.py:77-84), which assigns the fallback data
Classify(j) ==
    /\ running = j
    /\ pc[j] = "classify"
    /\ LET c == ClassifyAttachments(client_task[j].attachments)
       IN  IF c.raised # ""
           THEN /\ Logged(j, Result("get_file_content", c.raised, FALSE))
                /\ new_data' = [new_data EXCEPT ![j] =
                                  IF InnerTry(c.raised) = "payload"
                                  THEN FallbackData ELSE @]
                /\ pc' = [pc EXCEPT ![j] = InnerTry(c.raised)]
                /\ running' = IF InnerTry(c.raised) = "payload" THEN j ELSE 0
           ELSE /\ pc' = [pc EXCEPT ![j] = "generate"]
                /\ running' = 0
                /\ UNCHANGED <<logVars, new_data>>
    /\ UNCHANGED <<client_task, response, public, hostVars, list_file, payload,
                   sendVars, timeVars>>

\* main.py:58  get_file_content returns the generated files; its tool may
\* have written assets into the scratch directory
GenerateReturn(j) ==
    /\ running = 0
    /\ pc[j] = "generate"
    /\ ~stalled[j]
    /\ \E fs \in GenLists, assets \in AssetSets :
         /\ list_file' = [list_file EXCEPT ![j] = fs]
         /\ public' = [public EXCEPT ![client_task[j].task].files = @ \cup assets]
         /\ elapsed' = [elapsed EXCEPT ![j] = 0]
         /\ pc' = [pc EXCEPT ![j] = IF fs = <<>> THEN "upload" ELSE "commit"]
    /\ running' = j
    /\ UNCHANGED <<client_task, response, hostVars, logVars, new_data, payload,
                   sendVars, stalled>>

\* main.py:58, 68-84  get_file_content raises: either handler assigns the
\* fallback data
GenerateRaise(j) ==
    /\ running = 0
    /\ pc[j] = "generate"
    /\ ~stalled[j]
    /\ \E e \in {"TimeoutError", "Exception"} :
         /\ Logged(j, Result("get_file_content", e, FALSE))
         /\ new_data' = [new_data EXCEPT ![j] =
                           IF InnerTry(e) = "payload" THEN FallbackData ELSE @]
         /\ pc' = [pc EXCEPT ![j] = InnerTry(e)]
         /\ running' = IF InnerTry(e) = "payload" THEN j ELSE 0
    /\ elapsed' = [elapsed EXCEPT ![j] = 0]
    /\ UNCHANGED <<client_task, response, public, hostVars, list_file, payload,
                   sendVars, stalled>>

\* agent.py:284  the awaited build_app_agent.run never completes; nothing
\* in background_job bounds the wait
GenerateStall(j) ==
    /\ pc[j] = "generate"
    /\ ~stalled[j]
    /\ stalled' = [stalled EXCEPT ![j] = TRUE]
    /\ UNCHANGED <<running, pc, client_task, response, public, hostVars, logVars, jobVars,
                   sendVars, elapsed>>

\* MaxElapsed minutes pass while run j awaits the Content Generator:
\* background_job sets no deadline on the await (main.py:58), so the wait
\* just goes on
Tick(j) ==
    /\ pc[j] = "generate"
    /\ elapsed[j] = 0
    /\ elapsed' = [elapsed EXCEPT ![j] = MaxElapsed]
    /\ UNCHANGED <<running, pc, client_task, response, public, hostVars, logVars, jobVars,
                   sendVars, stalled>>

\* main.py:59-60  one iteration of the commit loop
CommitFile(j) ==
    /\ running = j
    /\ pc[j] = "commit"
    /\ list_file[j] # <<>>
    /\ \E fault \in Faults :
         LET file == Head(list_file[j])
             r == create_or_update_file(host, RepoName(client_task[j].task),
                                        file.path, file.content, fault)
         IN  /\ host' = r.host
             /\ faults' = Count(fault)
             /\ Logged(j, Result("create_or_update_file", r.message, fault))
    /\ list_file' = [list_file EXCEPT ![j] = Tail(@)]
    /\ pc' = [pc EXCEPT ![j] =
                IF Len(list_file[j]) = 1 THEN "upload" ELSE "commit"]
    /\ UNCHANGED <<running, client_task, response, public, new_data, payload,
                   sendVars, timeVars>>

\* main.py:62  await uploade_all_public_file_from_local_directory(...)
Upload(j) ==
    /\ running = j
    /\ pc[j] = "upload"
    /\ LET name == RepoName(client_task[j].task)
           dir == public[client_task[j].task]
       IN  \E fault \in Faults, okfiles \in SUBSET Uploadable(dir.files) :
             /\ (fault \/ ~host[name].exists) => okfiles = {}
             /\ LET r == uploade_all_public_file_from_local_directory(
                             host, name, dir, okfiles, fault)
                IN  /\ host' = r.host
                    /\ faults' = Count(fault)
                    /\ Logged(j, [Result("upload", r.message, fault)
                                     EXCEPT !.count = r.count])
    /\ pc' = [pc EXCEPT ![j] = "pages"]
    /\ UNCHANGED <<running, client_task, response, public, jobVars, sendVars, timeVars>>

\* mutant: a failed call is made again
EnablePages_Retry(j) ==
    /\ running = j
    /\ pc[j] = "pages"
    /\ \E fault \in Faults :
         LET r == enable_github_pages(host, RepoName(client_task[j].task), fault)
         IN  /\ host' = r.host
             /\ faults' = Count(fault)
             /\ Logged(j, Result("enable_github_pages", r.message, fault))
             /\ pc' = [pc EXCEPT ![j] = IF r.message = "failed" THEN "pages"
                                        ELSE "query"]
    /\ UNCHANGED <<running, client_task, response, public, jobVars, sendVars, timeVars>>

\* main.py:64  await enable_github_pages(new_repo_name)
EnablePages(j) ==
    /\ running = j
    /\ pc[j] = "pages"
    /\ \E fault \in Faults :
         LET r == enable_github_pages(host, RepoName(client_task[j].task), fault)
         IN  /\ host' = r.host
             /\ faults' = Count(fault)
             /\ Logged(j, Result("enable_github_pages", r.message, fault))
    /\ pc' = [pc EXCEPT ![j] = "query"]
    /\ UNCHANGED <<running, client_task, response, public, jobVars, sendVars, timeVars>>

\* mutant: the state is collected without waiting for enable_github_pages
QueryState_Early(j) ==
    /\ running = j
    /\ pc[j] \in {"pages", "query"}
    /\ \E fault \in Faults :
         LET d == get_output_data(host, RepoName(client_task[j].task), fault)
         IN  /\ new_data' = [new_data EXCEPT ![j] = d]
             /\ faults' = Count(fault)
             /\ Logged(j, Result("get_output_data",
                                 IF d = EmptyDict THEN "empty" ELSE "data",
                                 fault))
    /\ pc' = [pc EXCEPT ![j] = "payload"]
    /\ UNCHANGED <<running, client_task, response, public, host, list_file, payload,
                   sendVars, timeVars>>

\* main.py:66  new_data = await get_output_data(new_repo_name)
QueryState(j) ==
    /\ running = j
    /\ pc[j] = "query"
    /\ \E fault \in Faults :
         LET d == get_output_data(host, RepoName(client_task[j].task), fault)
         IN  /\ new_data' = [new_data EXCEPT ![j] = d]
             /\ faults' = Count(fault)
             /\ Logged(j, Result("get_output_data",
                                 IF d = EmptyDict THEN "empty" ELSE "data",
                                 fault))
    /\ pc' = [pc EXCEPT ![j] = "payload"]
    /\ UNCHANGED <<running, client_task, response, public, host, list_file, payload,
                   sendVars, timeVars>>

\* main.py:87-95  the payload dict
MakePayload(ct, d) ==
    [email |-> Str(ct.email),
     task |-> Str(ct.task),
     round |-> PyInt(ct.round),
     nonce |-> Str(ct.nonce),
     repo_url |-> Str(Get(d, "repo_url")),
     commit_sha |-> Str(Get(d, "commit_sha")),
     pages_url |-> Str(Get(d, "pages_url"))]

\* main.py:87-98  build the payload and call send_evaluation(max_retries=5),
\* which runs up to its first await.  new_data and the adapter results are
\* not read again
BuildPayload(j) ==
    /\ running = j
    /\ pc[j] = "payload"
    /\ payload' = [payload EXCEPT ![j] = MakePayload(client_task[j], new_data[j])]
    /\ new_data' = [new_data EXCEPT ![j] = EmptyDict]
    /\ last' = [last EXCEPT ![j] = NoResult]
    /\ degraded' = [degraded EXCEPT ![j] = FALSE]
    /\ max_retries' = [max_retries EXCEPT ![j] = JOB_MAX_RETRIES]
    /\ attempt' = [attempt EXCEPT ![j] = 0]
    /\ pc' = [pc EXCEPT ![j] = "send"]
    /\ running' = 0
    /\ UNCHANGED <<client_task, response, public, hostVars, list_file,
                   status, sends, sleeps, result, posted, timeVars>>

(* ------------------ src/core/send_eval.py: send_evaluation ------------- *)
\* mutant: the body is stamped with the number of the attempt
PostRequest_Stamped(j) ==
    [url |-> client_task[j].evaluation_url,
     json |-> [payload[j] EXCEPT !.nonce = ToString(attempt[j])]]

\* send_eval.py:23-27  client.post(evaluation_url, json=payload, headers=...)
\* with the arguments background_job passed (main.py:98)
PostRequest(j) ==
    [url |-> client_task[j].evaluation_url, json |-> payload[j]]

\* send_eval.py:18-58  one iteration of `for attempt in range(max_retries)`
\* up to the backoff sleep
SendAttempt(j) ==
    /\ running = 0
    /\ pc[j] = "send"
    /\ InRange(attempt[j], max_retries[j])
    /\ \E o \in SendOutcomes :
         /\ status' = [status EXCEPT ![j] = o]
         /\ sends' = [sends EXCEPT ![j] = @ + 1]
         /\ posted' = [posted EXCEPT ![j] = @ \cup {PostRequest(j)}]
         /\ CASE AttemptVerdict(o) = "return_true" ->
                   /\ result' = [result EXCEPT ![j] = "True"]
                   /\ pc' = [pc EXCEPT ![j] = "returned"]
                   /\ UNCHANGED attempt
              [] AttemptVerdict(o) = "raise" ->
                   /\ result' = [result EXCEPT ![j] = "raised"]
                   /\ pc' = [pc EXCEPT ![j] = "returned"]
                   /\ UNCHANGED attempt
              [] OTHER ->
                   /\ UNCHANGED result
                   /\ IF SleepsAfter(attempt[j], max_retries[j])
                      THEN /\ pc' = [pc EXCEPT ![j] = "sleep"]
                           /\ UNCHANGED attempt
                      ELSE /\ pc' = [pc EXCEPT ![j] = "send"]
                           /\ attempt' = [attempt EXCEPT ![j] = @ + 1]
    /\ UNCHANGED <<running, client_task, response, public, hostVars, logVars, jobVars,
                   max_retries, sleeps, timeVars>>

\* send_eval.py:56-58  await asyncio.sleep(delay), then the next iteration
Backoff(j) ==
    /\ running = 0
    /\ pc[j] = "sleep"
    /\ sleeps' = [sleeps EXCEPT ![j] = Append(@, BackoffDelay(attempt[j]))]
    /\ attempt' = [attempt EXCEPT ![j] = @ + 1]
    /\ status' = [status EXCEPT ![j] = ""]
    /\ pc' = [pc EXCEPT ![j] = "send"]
    /\ UNCHANGED <<running, client_task, response, public, hostVars, logVars, jobVars,
                   max_retries, sends, result, posted, timeVars>>

\* send_eval.py:60-68  the loop is exhausted: return False
SendExhausted(j) ==
    /\ running = 0
    /\ pc[j] = "send"
    /\ ~InRange(attempt[j], max_retries[j])
    /\ result' = [result EXCEPT ![j] = "False"]
    /\ pc' = [pc EXCEPT ![j] = "returned"]
    /\ UNCHANGED <<running, client_task, response, public, hostVars, logVars, jobVars,
                   max_retries, attempt, status, sends, sleeps, posted, timeVars>>

\* main.py:98-102  send_evaluation is back (its value is dropped, an
\* exception is logged by the outer handler); background_job ends and its
\* locals are gone: nothing of the run is kept in memory
JobComplete(j) ==
    /\ running = 0
    /\ pc[j] = "returned"
    /\ pc' = [pc EXCEPT ![j] = "done"]
    /\ last' = [last EXCEPT ![j] = NoResult]
    /\ degraded' = [degraded EXCEPT ![j] = FALSE]
    /\ list_file' = [list_file EXCEPT ![j] = <<>>]
    /\ new_data' = [new_data EXCEPT ![j] = EmptyDict]
    /\ payload' = [payload EXCEPT ![j] = NoPayload]
    /\ max_retries' = [max_retries EXCEPT ![j] = 0]
    /\ attempt' = [attempt EXCEPT ![j] = 0]
    /\ status' = [status EXCEPT ![j] = ""]
    /\ sends' = [sends EXCEPT ![j] = 0]
    /\ sleeps' = [sleeps EXCEPT ![j] = <<>>]
    /\ result' = [result EXCEPT ![j] = "pending"]
    /\ posted' = [posted EXCEPT ![j] = {}]
    /\ UNCHANGED <<running, client_task, response, public, hostVars, timeVars>>

(* ------------- the delivery as one step of background_job -------------- *)
\* main.py:98-102  await send_evaluation(...), then background_job ends.
\* The call touches only its own locals and the evaluation endpoint, its
\* loop is bounded by max_retries and every post by its timeout, and its
\* value is dropped: for the other runs it is one step (DeliverySpec
\* follows it await by await).  The locals of the run are gone afterwards.
Deliver(j) ==
    /\ running = 0
    /\ pc[j] = "send"
    /\ pc' = [pc EXCEPT ![j] = "done"]
    /\ payload' = [payload EXCEPT ![j] = NoPayload]
    /\ max_retries' = [max_retries EXCEPT ![j] = 0]
    /\ UNCHANGED <<running, client_task, response, public, hostVars, logVars,
                   list_file, new_data, attempt, status, sends, sleeps, result,
                   posted, timeVars>>

(* --------------------------- specifications ---------------------------- *)
Pipeline(j) ==
    \/ StartJob(j)
    \/ CreateRepo(j)
    \/ Classify(j)
    \/ GenerateReturn(j)
    \/ GenerateRaise(j)
    \/ CommitFile(j)
    \/ Upload(j)
    \/ EnablePages(j)
    \/ QueryState(j)
    \/ BuildPayload(j)

Delivery(j) ==
    \/ SendAttempt(j)
    \/ Backoff(j)
    \/ SendExhausted(j)
    \/ JobComplete(j)

Next ==
    \E j \in Jobs :
        \/ Submit(j)
        \/ Pipeline(j)
        \/ GenerateStall(j)
        \/ Tick(j)
        \/ Deliver(j)

Spec == Init /\ [][Next]_vars

\* The event loop runs every coroutine that can run: a step of a job that
\* is enabled is eventually taken.  A generator call that never answers
\* (stalled) enables nothing.
FairSpec ==
    Spec /\ \A j \in Jobs : WF_vars(Pipeline(j) \/ Deliver(j))

\* send_evaluation called directly, with any max_retries, by one run or by
\* two runs at a time (the calls share nothing but the event loop); the
\* other runs are over
DeliveryInit ==
    /\ InitCommon
    /\ \E a, b \in Jobs :
         /\ pc = [j \in Jobs |-> IF j \in {a, b} THEN "send" ELSE "done"]
         /\ \E ma, mb \in 0..MaxRetriesArg :
              max_retries = [j \in Jobs |-> IF j = a THEN ma
                                            ELSE IF j = b THEN mb ELSE 0]

DeliveryNext == \E j \in Jobs : Delivery(j)

DeliverySpec == DeliveryInit /\ [][DeliveryNext]_vars

\* what new_data may hold when run j reaches the payload (main.py:66, 69-73,
\* 78-82): the fallback data; or, for a run whose attachments were
\* classified, what get_output_data returned, {} or the data of the repository
OutcomesAtPayload(ct) ==
    {FallbackData} \cup
    IF ClassifyAttachments(ct.attachments).raised # ""
    THEN {}
    ELSE LET name == RepoName(ct.task)
             h == HostCreateRepo([n \in RepoNames |-> NoRepo], name).host
         IN  {EmptyDict, get_output_data(h, name, FALSE)}

\* background_job from the payload on (main.py:86-99), for any accepted
\* ClientTask and any outcome of the provisioning, with send_evaluation
\* followed await by await; the other runs are over
PayloadInit ==
    /\ \E a \in Jobs :
         /\ pc = [j \in Jobs |-> IF j = a THEN "payload" ELSE "done"]
         /\ running = a
         /\ \E ct \in {c \in ClientTasks : SecretOk(c.secret)} :
              /\ client_task = [j \in Jobs |-> IF j = a THEN ct ELSE NoTask]
              /\ response = [j \in Jobs |-> IF j = a THEN HTTP_OK ELSE 0]
              /\ \E d \in OutcomesAtPayload(ct) :
                   new_data = [j \in Jobs |-> IF j = a THEN d ELSE EmptyDict]
    /\ public = [t \in Tasks |-> NoDir]
    /\ host = [n \in RepoNames |-> NoRepo]
    /\ faults = 0
    /\ last = [j \in Jobs |-> NoResult]
    /\ degraded = [j \in Jobs |-> FALSE]
    /\ list_file = [j \in Jobs |-> <<>>]
    /\ payload = [j \in Jobs |-> NoPayload]
    /\ max_retries = [j \in Jobs |-> 0]
    /\ attempt = [j \in Jobs |-> 0]
    /\ status = [j \in Jobs |-> ""]
    /\ sends = [j \in Jobs |-> 0]
    /\ sleeps = [j \in Jobs |-> <<>>]
    /\ result = [j \in Jobs |-> "pending"]
    /\ posted = [j \in Jobs |-> {}]
    /\ elapsed = [j \in Jobs |-> 0]
    /\ stalled = [j \in Jobs |-> FALSE]

PayloadNext == \E j \in Jobs : BuildPayload(j) \/ Delivery(j)

PayloadSpec == PayloadInit /\ [][PayloadNext]_vars

(* ------ the adapter calls from the upload on, for any repository ------- *)
\* the states the repository of a task can be in when a run uploads: not
\* there, there without a commit, or as create_repo made it, each with or
\* without site
RepoStates ==
    {NoRepo} \cup
    {[exists |-> TRUE,
      files |-> [p \in AllPaths |->
                   IF p = "README.md" /\ n > 0 THEN InitialReadme
                   ELSE AbsentFile],
      commits |-> n,
      pages |-> site] : n \in {0, 1}, site \in BOOLEAN}

\* main.py:62-66  one run is about to upload its scratch directory, which
\* holds any of the files; the other runs are over
AdapterInit ==
    /\ \E a \in Jobs :
         /\ pc = [j \in Jobs |-> IF j = a THEN "upload" ELSE "done"]
         /\ running = a
         /\ \E ct \in {c \in Submissions :
                          SecretOk(c.secret) /\ c.attachments = Attachments(<<>>)} :
              /\ client_task = [j \in Jobs |-> IF j = a THEN ct ELSE NoTask]
              /\ response = [j \in Jobs |-> IF j = a THEN HTTP_OK ELSE 0]
              /\ \E fs \in SUBSET LocalFiles :
                   public = [t \in Tasks |->
                               IF t = ct.task
                               THEN [exists |-> TRUE, files |-> fs]
                               ELSE NoDir]
              /\ \E repo \in RepoStates :
                   host = [n \in RepoNames |->
                             IF n = RepoName(ct.task) THEN repo ELSE NoRepo]
    /\ faults = 0
    /\ last = [j \in Jobs |-> NoResult]
    /\ degraded = [j \in Jobs |-> FALSE]
    /\ list_file = [j \in Jobs |-> <<>>]
    /\ new_data = [j \in Jobs |-> EmptyDict]
    /\ payload = [j \in Jobs |-> NoPayload]
    /\ max_retries = [j \in Jobs |-> 0]
    /\ attempt = [j \in Jobs |-> 0]
    /\ status = [j \in Jobs |-> ""]
    /\ sends = [j \in Jobs |-> 0]
    /\ sleeps = [j \in Jobs |-> <<>>]
    /\ result = [j \in Jobs |-> "pending"]
    /\ posted = [j \in Jobs |-> {}]
    /\ elapsed = [j \in Jobs |-> 0]
    /\ stalled = [j \in Jobs |-> FALSE]

AdapterNext == \E j \in Jobs : Upload(j) \/ EnablePages(j) \/ QueryState(j)

AdapterSpec == AdapterInit /\ [][AdapterNext]_vars

(* ---- the adapter calls of several processes, host request by request --- *)
\* Inside one event loop an adapter call is one step.  Runs of different
\* processes of the service (or any other client of the host) interleave
\* between the requests a call makes to the host: the lookup and the write
\* of create_new_repo and of create_or_update_file are two requests.
\* last[j] holds what the latest request of run j gave.

RaceContents == {"<h1>hi</h1>", "<h1>bye</h1>"}

RaceFiles == [path : Paths, content : RaceContents]

\* github.py:31-38  g.get_user(), user.get_repo(new_repo_name)
get_repo(h, name, fault) ==
    IF fault THEN "GithubException"
    ELSE IF h[name].exists THEN "found"
    ELSE "UnknownObjectException"

\* mutant: a refusal of the host is reported as a creation
create_repo_Unchecked(h, name, fault) ==
    IF fault
    THEN [host |-> h, message |-> "failed"]
    ELSE [host |-> HostCreateRepo(h, name).host, message |-> "created"]

\* github.py:40-54  user.create_repo(...): "created", or "failed" when the
\* host refuses
create_repo(h, name, fault) ==
    IF fault
    THEN [host |-> h, message |-> "failed"]
    ELSE LET c == HostCreateRepo(h, name)
         IN  [host |-> c.host,
              message |-> IF c.ok THEN "created" ELSE "failed"]

\* github.py:148-153  user.get_repo(repo_name), repo.get_contents(path):
\* the sha of the file, or the exception raised
get_contents(h, name, path, fault) ==
    IF fault \/ ~h[name].exists THEN "GithubException"
    ELSE IF h[name].files[path] = AbsentFile THEN "UnknownObjectException"
    ELSE BlobSha(h[name].files[path])

\* mutant: the update is made with the sha the file has at the time of the
\* write, not with the one read
write_file_Force(h, name, path, content, found, fault) ==
    IF fault \/ ~h[name].exists
    THEN [host |-> h, message |-> "failed"]
    ELSE IF found = "UnknownObjectException"
    THEN LET c == HostCreateFile(h, name, path, content)
         IN  [host |-> c.host, message |-> IF c.ok THEN "created" ELSE "failed"]
    ELSE LET u == HostUpdateFile(h, name, path, content,
                                 BlobSha(h[name].files[path]))
         IN  [host |-> u.host, message |-> IF u.ok THEN "updated" ELSE "failed"]

\* github.py:155-181  update_file with the sha read, or create_file when the
\* read found no file; a refusal of the host is "failed"
write_file(h, name, path, content, found, fault) ==
    IF fault \/ ~h[name].exists
    THEN [host |-> h, message |-> "failed"]
    ELSE IF found = "UnknownObjectException"
    THEN LET c == HostCreateFile(h, name, path, content)
         IN  [host |-> c.host, message |-> IF c.ok THEN "created" ELSE "failed"]
    ELSE LET u == HostUpdateFile(h, name, path, content, found)
         IN  [host |-> u.host, message |-> IF u.ok THEN "updated" ELSE "failed"]

\* main.py:56, github.py:31-38  create_new_repo: the lookup
RaceGetRepo(j) ==
    /\ pc[j] = "create_repo"
    /\ \E fault \in Faults :
         LET found == get_repo(host, RepoName(client_task[j].task), fault)
         IN  /\ faults' = Count(fault)
             /\ CASE found = "GithubException" ->
                       /\ Logged(j, Result("create_new_repo", "failed", fault))
                       /\ pc' = [pc EXCEPT ![j] = "commit"]
                  [] found = "found" ->
                       /\ Logged(j, Result("create_new_repo", "already exist", fault))
                       /\ pc' = [pc EXCEPT ![j] = "commit"]
                  [] OTHER ->
                       /\ Logged(j, Result("get_repo", found, fault))
                       /\ pc' = [pc EXCEPT ![j] = "create_repo_call"]
    /\ UNCHANGED <<running, client_task, response, public, host, jobVars,
                   sendVars, timeVars>>

\* github.py:40-54  create_new_repo: the creation; background_job goes on
\* to the commit loop whatever the result (main.py:56-60)
RaceCreateRepo(j) ==
    /\ pc[j] = "create_repo_call"
    /\ \E fault \in Faults :
         LET r == create_repo(host, RepoName(client_task[j].task), fault)
         IN  /\ host' = r.host
             /\ faults' = Count(fault)
             /\ Logged(j, Result("create_new_repo", r.message, fault))
    /\ pc' = [pc EXCEPT ![j] = "commit"]
    /\ UNCHANGED <<running, client_task, response, public, jobVars, sendVars,
                   timeVars>>

\* main.py:60, github.py:148-153  create_or_update_file: the read
RaceGetContents(j) ==
    /\ pc[j] = "commit"
    /\ list_file[j] # <<>>
    /\ \E fault \in Faults :
         LET file == Head(list_file[j])
             found == get_contents(host, RepoName(client_task[j].task),
                                   file.path, fault)
         IN  /\ faults' = Count(fault)
             /\ IF found = "GithubException"
                THEN /\ Logged(j, Result("create_or_update_file", "failed", fault))
                     /\ list_file' = [list_file EXCEPT ![j] = Tail(@)]
                     /\ pc' = [pc EXCEPT ![j] = "upload"]
                ELSE /\ Logged(j, Result("get_contents", found, fault))
                     /\ pc' = [pc EXCEPT ![j] = "commit_write"]
                     /\ UNCHANGED list_file
    /\ UNCHANGED <<running, client_task, response, public, host, new_data,
                   payload, sendVars, timeVars>>

\* github.py:155-181  create_or_update_file: the write
RaceWriteFile(j) ==
    /\ pc[j] = "commit_write"
    /\ \E fault \in Faults :
         LET file == Head(list_file[j])
             r == write_file(host, RepoName(client_task[j].task), file.path,
                             file.content, last[j].message, fault)
         IN  /\ host' = r.host
             /\ faults' = Count(fault)
             /\ Logged(j, Result("create_or_update_file", r.message, fault))
    /\ list_file' = [list_file EXCEPT ![j] = Tail(@)]
    /\ pc' = [pc EXCEPT ![j] = "upload"]
    /\ UNCHANGED <<running, client_task, response, public, new_data, payload,
                   sendVars, timeVars>>

\* every run is about to call create_new_repo and has one file to commit
RaceInit ==
    /\ pc = [j \in Jobs |-> "create_repo"]
    /\ client_task \in
         [Jobs -> {ct \in Submissions :
                     SecretOk(ct.secret) /\ ct.attachments = Attachments(<<>>)}]
    /\ response = [j \in Jobs |-> HTTP_OK]
    /\ list_file \in [Jobs -> {<<f>> : f \in RaceFiles}]
    /\ public = [t \in Tasks |-> NoDir]
    /\ host = [n \in RepoNames |-> NoRepo]
    /\ faults = 0
    /\ last = [j \in Jobs |-> NoResult]
    /\ degraded = [j \in Jobs |-> FALSE]
    /\ new_data = [j \in Jobs |-> EmptyDict]
    /\ payload = [j \in Jobs |-> NoPayload]
    /\ max_retries = [j \in Jobs |-> 0]
    /\ attempt = [j \in Jobs |-> 0]
    /\ status = [j \in Jobs |-> ""]
    /\ sends = [j \in Jobs |-> 0]
    /\ sleeps = [j \in Jobs |-> <<>>]
    /\ result = [j \in Jobs |-> "pending"]
    /\ posted = [j \in Jobs |-> {}]
    /\ elapsed = [j \in Jobs |-> 0]
    /\ stalled = [j \in Jobs |-> FALSE]
    /\ running = 0

RaceNext ==
    \E j \in Jobs :
        \/ RaceGetRepo(j)
        \/ RaceCreateRepo(j)
        \/ RaceGetContents(j)
        \/ RaceWriteFile(j)

RaceSpec == RaceInit /\ [][RaceNext]_vars

(* =============================== claims ================================ *)

\* the three outcome fields of a payload are the fallback placeholder
IsFallback(p) ==
    p.repo_url = "..." /\ p.commit_sha = "..." /\ p.pages_url = "..."

\* C1: once the pipeline deadline (9 minutes) has elapsed while a run is
\* still provisioning, the run has stopped waiting and holds the fallback
\* data for its payload.
C1_DeadlineFallback ==
    \A j \in Jobs :
        elapsed[j] >= DEADLINE_MINUTES =>
            /\ pc[j] # "generate"
            /\ new_data[j] = FallbackData

\* C2: every accepted job eventually reaches the delivery step, whichever
\* phase fails or stalls.
C2_EveryJobDelivers ==
    \A j \in Jobs : (pc[j] = "queued") ~> (pc[j] \in {"send", "done"})

\* C3: a run in which some provisioning call failed delivers the three
\* fallback placeholders.
C3_FailedPhaseGivesFallback ==
    \A j \in Jobs :
        (pc[j] = "payload" /\ degraded[j]) =>
            IsFallback(MakePayload(client_task[j], new_data[j]))

\* C4: with every attempt failing, the sleep before attempt k (k > 1) is
\* min(2^(k-2), 16): the delays are 1, 2, 4, 8, 16, 16, ...; every attempt
\* but the first is preceded by one sleep, and no sleep follows the last
\* attempt.
C4_BackoffSequence ==
    \A j \in Jobs :
        /\ \A i \in 1..Len(sleeps[j]) : sleeps[j][i] = Min(Pow2(i - 1), 16)
        /\ pc[j] = "sleep" =>
              /\ Len(sleeps[j]) = sends[j] - 1
              /\ sends[j] < max_retries[j]
        /\ pc[j] = "send" =>
              Len(sleeps[j]) = IF max_retries[j] = 0 THEN 0
                               ELSE Min(sends[j], max_retries[j] - 1)
        /\ (result[j] = "False" /\ max_retries[j] > 0) =>
              Len(sleeps[j]) = max_retries[j] - 1

\* a call with max_retries = 7 failed: six sleeps, the last one capped
C4_Witness ==
    \E j \in Jobs :
        /\ result[j] = "False"
        /\ Len(sleeps[j]) = 6
        /\ sleeps[j][6] = 16

\* C5: with no attempt succeeding send_evaluation makes exactly max_retries
\* posts, never more, and returns False; the job that called it then ends
\* and delivery is not started again.
C5_ExactlyMaxAttempts ==
    \A j \in Jobs :
        /\ sends[j] <= max_retries[j]
        /\ result[j] = "False" => (sends[j] = max_retries[j] /\ pc[j] = "returned")
        /\ pc[j] = "done" => ~ENABLED Delivery(j)

\* the default of five attempts, all failed
C5_Witness ==
    \E j \in Jobs :
        /\ pc[j] = "returned"
        /\ result[j] = "False"
        /\ max_retries[j] = 5
        /\ sends[j] = 5

\* C6: send_evaluation returns True exactly on an attempt answered with
\* status 200, and after it neither posts nor sleeps again.
C6_TrueOnFirst200 ==
    \A j \in Jobs :
        /\ (result[j] = "True") <=> (status[j] = "200")
        /\ status[j] = "200" =>
              /\ pc[j] = "returned"
              /\ sends[j] = attempt[j] + 1
              /\ Len(sleeps[j]) = attempt[j]
              /\ ~ENABLED (SendAttempt(j) \/ Backoff(j) \/ SendExhausted(j))

\* two attempts failed, the third was answered 200
C6_Witness ==
    \E j \in Jobs :
        /\ result[j] = "True"
        /\ sends[j] = 3
        /\ Len(sleeps[j]) = 2

\* C7: send_evaluation never raises: whatever the posts yield, what its
\* caller gets is True or False.
C7_NeverRaises ==
    \A j \in Jobs :
        /\ result[j] \in {"pending", "True", "False"}
        /\ pc[j] = "returned" => result[j] \in {"True", "False"}

\* the last attempt ended in an exception that is neither a timeout nor a
\* network error, and the call returned False
C7_Witness ==
    \E j \in Jobs :
        /\ pc[j] = "returned"
        /\ result[j] = "False"
        /\ status[j] = "Exception"

\* C8: a submission whose secret differs from the configured one is
\* answered 403 and never runs: no phase, no host call, no delivery; while
\* only such submissions have arrived the host and the disk are untouched.
C8_RejectedNeverRuns ==
    /\ \A j \in Jobs :
          (pc[j] # "none" /\ client_task[j].secret # GFORM_SECRET) =>
              /\ pc[j] = "rejected"
              /\ response[j] = 403
              /\ running # j
              /\ last[j] = NoResult
              /\ payload[j] = NoPayload
              /\ ~ENABLED (Pipeline(j) \/ Deliver(j))
    /\ (\A j \in Jobs : pc[j] \in {"none", "rejected"}) =>
          /\ host = [n \in RepoNames |-> NoRepo]
          /\ public = [t \in Tasks |-> NoDir]

\* one submission was rejected, another ran to its end
C8_Witness ==
    \E i, j \in Jobs :
        /\ pc[i] = "rejected"
        /\ client_task[i].secret # GFORM_SECRET
        /\ pc[j] = "done"

\* C9: on a healthy host create_new_repo reports "created" for a name the
\* host lacks and "already exist" for one it holds, never "failed"; the
\* name exists afterwards and a repository that existed is left as it was.
C9_CreateRepoIdempotent ==
    [][\A j \in Jobs :
          (pc[j] = "create_repo" /\ pc'[j] = "classify" /\ ~last'[j].fault) =>
              LET n == RepoName(client_task[j].task)
              IN  /\ host'[n].exists
                  /\ last'[j].message =
                        IF host[n].exists THEN "already exist" ELSE "created"
                  /\ host[n].exists => host' = host
                  /\ \A m \in RepoNames \ {n} : host'[m] = host[m]]_vars

\* a second call for the same name was answered "already exist"
C9_Witness ==
    \E j \in Jobs :
        /\ pc[j] = "generate"
        /\ last[j] = Result("create_new_repo", "already exist", FALSE)

\* C10: on a healthy host holding the repository, create_or_update_file
\* reports "created" for an absent path and "updated" for a present one,
\* never "failed", and afterwards the path holds the content passed in.
C10_UpsertIdempotent ==
    [][\A j \in Jobs :
          (/\ pc[j] = "commit"
           /\ list_file[j] # <<>>
           /\ list_file'[j] = Tail(list_file[j])
           /\ ~last'[j].fault
           /\ host[RepoName(client_task[j].task)].exists) =>
              LET n == RepoName(client_task[j].task)
                  f == Head(list_file[j])
              IN  /\ last'[j].message =
                        IF host[n].files[f.path] = AbsentFile
                        THEN "created" ELSE "updated"
                  /\ host'[n].files[f.path] = f.content
                  /\ \A p \in AllPaths \ {f.path} :
                        host'[n].files[p] = host[n].files[p]]_vars

\* a path other than the auto-created README.md was upserted a second time
\* and the call reported "updated"
C10_Witness ==
    \E j \in Jobs :
        /\ last[j] = Result("create_or_update_file", "updated", FALSE)
        /\ host[RepoName(client_task[j].task)].files["README.md"] = InitialReadme
        /\ host[RepoName(client_task[j].task)].files["index.html"] \in Contents

\* the names ClassifyAttachments lists for the attachments
Listed(att) ==
    {ClassifyAttachments(att).all[i] :
        i \in 1..Len(ClassifyAttachments(att).all)}

\* C11: a malformed attachment url fails for that attachment only: the
\* well-formed attachments of the list are still classified, and the step
\* that classifies goes on to the Content Generator, not to the fallback.
C11_MalformedAttachmentOnly ==
    [][\A j \in Jobs :
          (/\ pc[j] = "classify"
           /\ pc'[j] # "classify"
           /\ ~client_task[j].attachments.none) =>
              LET att == client_task[j].attachments
              IN  /\ \A i \in 1..Len(att.items) :
                        ~parse_data_uri(att.items[i]).raised =>
                            att.items[i].name \in Listed(att)
                  /\ pc'[j] = "generate"
                  /\ new_data'[j] # FallbackData]_vars

\* the Content Generator raised for run j
GeneratorRaised(j) ==
    /\ last[j].op = "get_file_content"
    /\ last[j].message \in {"TimeoutError", "Exception"}

\* C12: a run submitted without attachments (absent or empty), with no
\* failure of the host and none of the Content Generator, reaches the
\* payload with the real data of its repository; the payload names the
\* submitted task.
C12_NoAttachmentsNoFallback ==
    \A j \in Jobs :
        (/\ pc[j] = "payload"
         /\ client_task[j].attachments.items = <<>>
         /\ faults = 0
         /\ ~GeneratorRaised(j)) =>
            LET p == MakePayload(client_task[j], new_data[j])
                name == RepoName(client_task[j].task)
            IN  /\ ~IsFallback(p)
                /\ p.task = client_task[j].task
                /\ p.repo_url = "https://github.com/" \o OWNER \o "/" \o name
                /\ p.commit_sha = CommitSha(name, host[name].commits)

\* C13: every value of the payload is a string: round is the text of the
\* submitted round, an absent nonce is the text "None".
C13_PayloadAllStrings ==
    \A j \in Jobs :
        payload[j] # NoPayload =>
            /\ payload[j].email = client_task[j].email
            /\ payload[j].task = client_task[j].task
            /\ payload[j].round = PyStr(ToString(client_task[j].round))
            /\ payload[j].nonce = IF client_task[j].nonce = PyNone
                                  THEN "None" ELSE client_task[j].nonce

\* the runs that are over or never ran
Over(j) == pc[j] \in {"none", "rejected", "done"}

\* C14: when background_job has ended, the scratch directory it made is
\* gone: once every run of a task is over, public/<task> does not exist.
C14_ScratchRemoved ==
    \A t \in Tasks :
        (/\ \E j \in Jobs : pc[j] = "done" /\ client_task[j].task = t
         /\ \A j \in Jobs : client_task[j].task = t => Over(j)) =>
            ~public[t].exists

PhaseOrder ==
    <<"queued", "create_repo", "classify", "generate", "commit", "upload",
      "pages", "query", "payload", "send", "done">>

Rank(phase) == CHOOSE i \in 1..Len(PhaseOrder) : PhaseOrder[i] = phase

InPipeline(j) == pc[j] \notin {"none", "rejected", "done"}

\* C16: a run goes through its phases in the order ensure-repository,
\* generate, commit, sync assets, enable publishing, collect state, deliver:
\* each step takes it to the next phase, the commit loop being skipped for
\* an empty list and an exception of get_file_content leading to the
\* payload; the delivery starts from the payload phase only, with the
\* payload built from the outcome fixed there.
C16_PhasesInOrder ==
    [][\A j \in Jobs :
          (InPipeline(j) /\ pc'[j] # pc[j]) =>
              /\ \/ Rank(pc'[j]) = Rank(pc[j]) + 1
                 \/ /\ pc[j] = "generate"
                    /\ pc'[j] = "upload"
                    /\ list_file'[j] = <<>>
                 \/ /\ pc[j] \in {"classify", "generate"}
                    /\ pc'[j] = "payload"
                    /\ new_data'[j] = FallbackData
              /\ (pc[j] = "commit") => list_file'[j] = <<>>
              /\ (pc'[j] = "send") =>
                    /\ pc[j] = "payload"
                    /\ payload'[j] = MakePayload(client_task[j], new_data[j])]_vars

\* a run went through every phase: its file is committed, the asset is
\* uploaded, the pages are enabled, and the delivery has the real data
C16_Witness ==
    \E j \in Jobs :
        LET n == RepoName(client_task[j].task)
        IN  /\ pc[j] = "send"
            /\ ~IsFallback(payload[j])
            /\ payload[j].commit_sha = CommitSha(n, host[n].commits)
            /\ host[n].files["index.html"] \in Contents
            /\ host[n].files["chart.png"] = AssetContent
            /\ host[n].pages

\* C17: the commit loop upserts the files in the order of the list, one
\* call per file; and nothing is rolled back: no step removes a repository
\* or a file from the host, and a step that fails or falls back leaves the
\* host as it is.
C17_CommitOrderNoRollback ==
    [][/\ \A j \in Jobs :
            (pc[j] = "commit" /\ list_file'[j] # list_file[j]) =>
                LET n == RepoName(client_task[j].task)
                    f == Head(list_file[j])
                IN  /\ list_file'[j] = Tail(list_file[j])
                    /\ last'[j].op = "create_or_update_file"
                    /\ host'[n].commits <= host[n].commits + 1
                    /\ last'[j].message \in {"created", "updated"} =>
                          /\ host'[n].files[f.path] = f.content
                          /\ host'[n].commits = host[n].commits + 1
       /\ \A n \in RepoNames :
            /\ host[n].exists => host'[n].exists
            /\ host'[n].commits >= host[n].commits
            /\ host[n].pages => host'[n].pages
            /\ \A q \in AllPaths :
                  host[n].files[q] # AbsentFile => host'[n].files[q] # AbsentFile
       /\ \A j \in Jobs :
            ((last'[j] # last[j] /\ last'[j].message = "failed")
               \/ (new_data'[j] # new_data[j] /\ new_data'[j] = FallbackData)) =>
                host' = host]_vars

\* a later step of the run failed (enable_github_pages) and the file the
\* run committed before is still in the repository
C17_Witness ==
    \E j \in Jobs :
        LET n == RepoName(client_task[j].task)
        IN  /\ last[j] = Result("enable_github_pages", "failed", TRUE)
            /\ host[n].exists
            /\ host[n].files["index.html"] \in Contents

\* C18: no phase is retried: every step of a run that calls the adapter or
\* the Content Generator, failed or not, takes the run to a later phase, or
\* to the next file of the commit loop, and a run never goes back to a
\* phase it has left.
C18_NoPhaseRetry ==
    [][\A j \in Jobs :
          /\ (InPipeline(j) /\ pc'[j] # pc[j]) => Rank(pc'[j]) > Rank(pc[j])
          /\ (/\ InPipeline(j)
              /\ \/ last'[j] # last[j]
                 \/ (running = j /\ faults' # faults)) =>
                 \/ Rank(pc'[j]) > Rank(pc[j])
                 \/ /\ pc[j] = "commit"
                    /\ pc'[j] = "commit"
                    /\ Len(list_file'[j]) = Len(list_file[j]) - 1]_vars

\* enable_github_pages failed and the run went on to collect the state
C18_Witness ==
    \E j \in Jobs :
        /\ pc[j] = "query"
        /\ last[j] = Result("enable_github_pages", "failed", TRUE)
        /\ degraded[j]

\* C19: the payload is built once per run, when send_evaluation is called,
\* and stays as built until the run ends; send_evaluation is entered once;
\* every attempt posts that same payload to the evaluation url of the task.
C19_PayloadBuiltOnce ==
    [][\A j \in Jobs :
          /\ payload'[j] # payload[j] =>
                \/ /\ pc[j] = "payload"
                   /\ pc'[j] = "send"
                   /\ payload[j] = NoPayload
                \/ /\ pc'[j] = "done"
                   /\ payload'[j] = NoPayload
          /\ max_retries'[j] # max_retries[j] =>
                (pc[j] = "payload" \/ pc'[j] = "done")
          /\ pc[j] = "done" => pc'[j] = "done"
          /\ client_task'[j] = client_task[j]
          /\ (posted'[j] # posted[j] /\ pc'[j] # "done") =>
                posted'[j] = {[url |-> client_task[j].evaluation_url,
                               json |-> payload[j]]}]_vars

\* three attempts have posted, all the same payload with the real data, to
\* the evaluation url of the task
C19_Witness ==
    \E j \in Jobs :
        /\ sends[j] = 3
        /\ client_task[j].evaluation_url = "https://eval.example/b"
        /\ ~IsFallback(payload[j])
        /\ payload[j].task = client_task[j].task
        /\ posted[j] = {[url |-> client_task[j].evaluation_url,
                         json |-> payload[j]]}

\* the phases in which a run has its scratch directory: from its creation
\* (main.py:52) to the upload of what it holds (main.py:62)
HasScratch(j) ==
    pc[j] \in {"create_repo", "classify", "generate", "commit", "upload"}

\* C20: concurrent runs share no files: while a run has its scratch
\* directory and is not itself at work, no step of another run deletes the
\* directory or changes what it holds.
C20_NoSharedFiles ==
    [][\A j \in Jobs :
          (HasScratch(j) /\ pc'[j] = pc[j]) =>
              public'[client_task[j].task] = public[client_task[j].task]]_vars

\* C21: an update carries the version marker read in the same call: when
\* the file changed between the read and the write, the host refuses the
\* write, the call reports "failed" and the host is as it was; a call that
\* reports "created" or "updated" has stored its own content with a commit
\* of its own.
C21_StaleUpdateRejected ==
    [][\A j \in Jobs :
          (pc[j] = "commit_write" /\ pc'[j] # pc[j]) =>
              LET n == RepoName(client_task[j].task)
                  f == Head(list_file[j])
                  now == IF host[n].files[f.path] = AbsentFile
                         THEN "UnknownObjectException"
                         ELSE BlobSha(host[n].files[f.path])
              IN  /\ last'[j].op = "create_or_update_file"
                  /\ now # last[j].message =>
                        /\ last'[j].message = "failed"
                        /\ host' = host
                  /\ last'[j].message \in {"created", "updated"} =>
                        /\ host'[n].files[f.path] = f.content
                        /\ host'[n].commits = host[n].commits + 1
                        /\ now = last[j].message]_vars

\* two runs read the same file of the same repository; one stored its
\* content, the other, with another content and a stale marker, failed
C21_Witness ==
    \E i, j \in Jobs :
        LET n == RepoName(client_task[i].task)
        IN  /\ i # j
            /\ client_task[i].task = client_task[j].task
            /\ faults = 0
            /\ last[i] = Result("create_or_update_file", "updated", FALSE)
            /\ last[j] = Result("create_or_update_file", "failed", FALSE)
            /\ host[n].files["README.md"] \in RaceContents

C22_RepoNameOfTask ==
    [][/\ \A t1, t2 \in Tasks : (RepoName(t1) = RepoName(t2)) <=> (t1 = t2)
       /\ \A n \in DOMAIN host :
            host'[n] # host[n] =>
                \E j \in Jobs :
                    /\ pc'[j] # pc[j] \/ list_file'[j] # list_file[j]
                    /\ n = "test_" \o client_task[j].task
       /\ \A j \in Jobs :
            (pc[j] = "query" /\ pc'[j] = "payload"
                /\ new_data'[j].repo_url \notin {Missing, "..."}) =>
                /\ new_data'[j].repo_url
                     = "https://github.com/" \o OWNER \o "/test_"
                           \o client_task[j].task
                /\ new_data'[j].pages_url
                     = "https://" \o OWNER \o ".github.io/test_"
                           \o client_task[j].task \o "/"]_vars

\* two runs of one task, one waiting for its generator and the other past
\* its commits, have both written to the one repository of the task
C22_Witness ==
    \E i, j \in Jobs :
        LET n == RepoName(client_task[i].task)
        IN  /\ i # j
            /\ client_task[i].task = client_task[j].task
            /\ pc[i] = "generate"
            /\ last[i] = Result("create_new_repo", "created", FALSE)
            /\ pc[j] = "upload"
            /\ last[j] = Result("create_or_update_file", "updated", FALSE)
            /\ host[n].commits > 1
            /\ \A m \in DOMAIN host : m # n => ~host[m].exists

\* C23: enable_github_pages answers "enabled" exactly when the host made
\* the site (201), "already enabled" exactly when the site was there (409)
\* and "failed" for every other status and every request error; once the
\* site is there a call that reaches the host never answers "failed", and
\* after either success the run goes on in the same way.
C23_PagesMapping ==
    [][\A j \in Jobs :
          (pc[j] = "pages" /\ pc'[j] # pc[j]) =>
              LET n == RepoName(client_task[j].task)
                  reached == ~last'[j].fault /\ host[n].exists
                  message == last'[j].message
              IN  /\ last'[j].op = "enable_github_pages"
                  /\ message \in {"enabled", "already enabled", "failed"}
                  /\ (message = "enabled") <=> (reached /\ ~host[n].pages)
                  /\ (message = "already enabled") <=> (reached /\ host[n].pages)
                  /\ message = "enabled" => host'[n].pages
                  /\ message # "enabled" => host' = host
                  /\ pc'[j] = "query"
                  /\ message # "failed" => degraded'[j] = degraded[j]]_vars

\* a second run of a task whose site was made by the first run
C23_Witness ==
    \E i, j \in Jobs :
        /\ i # j
        /\ client_task[i].task = client_task[j].task
        /\ pc[i] = "done"
        /\ pc[j] = "query"
        /\ last[j] = Result("enable_github_pages", "already enabled", FALSE)
        /\ ~degraded[j]

\* C28: an adapter call that meets a host error returns a value, "failed"
\* or the empty mapping, leaves the host as it was and raises nothing: the
\* run is at the phase that follows the call, as after a success, and the
\* handler that assigns the fallback has not run.
C28_AdapterNeverRaises ==
    [][\A j \in Jobs :
          (pc[j] \in {"create_repo", "commit", "upload", "pages", "query"}
              /\ (pc'[j] # pc[j] \/ list_file'[j] # list_file[j])) =>
              /\ pc'[j] = CASE pc[j] = "create_repo" -> "classify"
                            [] pc[j] = "commit" ->
                                 IF Len(list_file'[j]) = 0
                                 THEN "upload" ELSE "commit"
                            [] pc[j] = "upload" -> "pages"
                            [] pc[j] = "pages" -> "query"
                            [] OTHER -> "payload"
              /\ new_data'[j] # FallbackData
              /\ last'[j].fault =>
                    /\ host' = host
                    /\ last'[j].message
                         = IF pc[j] = "query" THEN "empty" ELSE "failed"
                    /\ pc[j] = "query" => new_data'[j] = EmptyDict]_vars

\* create_new_repo met a host error; the run went through every later
\* phase, each failing on the missing repository, up to the payload
C28_Witness ==
    \E j \in Jobs :
        /\ pc[j] = "payload"
        /\ faults = 1
        /\ degraded[j]
        /\ last[j] = Result("get_output_data", "empty", FALSE)
        /\ new_data[j] = EmptyDict
        /\ \A n \in DOMAIN host : ~host[n].exists

\* C29: the three outcome fields of a payload are of one kind: all three
\* are "...", or all three are "None", or they are the URL of the task's
\* repository, the identifier of one of its commits (or "no commits") and
\* the URL of its site.
C29_OneFlavor ==
    \A j \in Jobs :
        payload[j] # NoPayload =>
            LET p == payload[j]
                n == RepoName(client_task[j].task)
            IN  \/ /\ p.repo_url = "..."
                   /\ p.commit_sha = "..."
                   /\ p.pages_url = "..."
                \/ /\ p.repo_url = "None"
                   /\ p.commit_sha = "None"
                   /\ p.pages_url = "None"
                \/ /\ p.repo_url = "https://github.com/" \o OWNER \o "/" \o n
                   /\ \/ p.commit_sha = "no commits"
                      \/ \E k \in 1..host[n].commits :
                            p.commit_sha = CommitSha(n, k)
                   /\ p.pages_url = "https://" \o OWNER \o ".github.io/"
                                       \o n \o "/"

\* a payload built from the empty mapping of a get_output_data that met a
\* host error on an existing repository
C29_Witness ==
    \E j \in Jobs :
        /\ pc[j] = "send"
        /\ faults = 1
        /\ host[RepoName(client_task[j].task)].pages
        /\ payload[j].repo_url = "None"
        /\ payload[j].commit_sha = "None"
        /\ payload[j].pages_url = "None"

\* C27: no exception leaves background_job: an exception of a phase is
\* answered by a handler that assigns the fallback and goes on to the
\* payload and the delivery, and the status answered to the submitter when
\* the run was queued is never changed by a step of the run.
C27_NothingSurfaces ==
    [][\A j \in Jobs :
          /\ pc'[j] # "propagated"
          /\ response[j] # 0 => response'[j] = response[j]
          /\ (last'[j] # last[j] /\ last'[j].op = "get_file_content") =>
                /\ pc'[j] = "payload"
                /\ new_data'[j] = FallbackData
          /\ pc[j] = "send" /\ pc'[j] # pc[j] => pc'[j] = "done"]_vars

\* a run whose generator raised is about to build its payload; the
\* submitter was answered 200 before the run began
C27_Witness ==
    \E j \in Jobs :
        /\ pc[j] = "payload"
        /\ last[j] = Result("get_file_content", "Exception", FALSE)
        /\ client_task[j].attachments = Attachments(<<>>)
        /\ new_data[j] = FallbackData
        /\ response[j] = HTTP_OK

\* C26: the classification of a list of attachments completes; it lists
\* as inline-deliverable exactly the attachments whose url is a base64
\* data url of a media type of the allow-list, every other attachment is
\* execution-only, and the list of all names holds the name of every
\* attachment, in order.
C26_ClassifyByAllowList ==
    [][\A j \in Jobs :
          (/\ pc[j] = "classify"
           /\ pc'[j] # "classify"
           /\ ~client_task[j].attachments.none) =>
              LET att == client_task[j].attachments
                  c == ClassifyAttachments(att)
                  InlineTypes ==
                      {"image/png", "image/jpeg", "image/jpg", "image/gif",
                       "image/webp", "application/pdf", "text/plain",
                       "text/html"}
                  inline(a) == /\ a.data_prefix
                               /\ a.base64
                               /\ a.media \in InlineTypes
              IN  /\ c.raised = ""
                  /\ Len(c.all) = Len(att.items)
                  /\ \A i \in 1..Len(att.items) :
                        /\ c.all[i] = att.items[i].name
                        /\ inline(att.items[i]) <=>
                              \E k \in 1..Len(c.sendable) :
                                  c.sendable[k] = att.items[i].name
                  /\ last'[j].op # "get_file_content"]_vars

\* C24: the upload leaves out every file whose name starts with '.' or is
\* in the skip set and every file below a directory of the skip set; a
\* file that cannot be read or stored is passed over and the walk goes
\* on; the count returned is the number of files stored, each by one
\* commit; a call that fails as a whole stores nothing.
C24_UploadCountsSuccesses ==
    [][\A j \in Jobs :
          (pc[j] = "upload" /\ pc'[j] # pc[j]) =>
              LET n == RepoName(client_task[j].task)
                  dir == public[client_task[j].task].files
                  stored == {p \in AllPaths :
                                host'[n].files[p] # host[n].files[p]}
                  skipped(f) ==
                      \/ f \in {".DS_Store"}
                      \/ f \in {"node_modules/x.js", "docs/__pycache__/m.pyc"}
              IN  /\ last'[j].op = "upload"
                  /\ last'[j].message \in {"uploaded", "failed"}
                  /\ stored \subseteq dir
                  /\ \A f \in stored :
                        ~skipped(f) /\ host'[n].files[f] = AssetContent
                  /\ last'[j].message = "uploaded" =>
                        /\ last'[j].count
                             = ToString(host'[n].commits - host[n].commits)
                        /\ Cardinality(stored)
                             = host'[n].commits - host[n].commits
                  /\ last'[j].message = "failed" =>
                        /\ host' = host
                        /\ last'[j].count = Missing]_vars

\* of the three files of the directory that are not left out, one could
\* not be stored and the two others were: the walk went on and counted 2,
\* and a file below a directory whose name only starts with '.' went up
C24_Witness ==
    \E j \in Jobs :
        LET n == RepoName(client_task[j].task)
        IN  /\ pc[j] = "pages"
            /\ public[client_task[j].task].files = LocalFiles
            /\ last[j] = [Result("upload", "uploaded", FALSE)
                            EXCEPT !.count = "2"]
            /\ host[n].files["chart.png"] = AbsentFile
            /\ host[n].files["assets/logo.png"] = AssetContent
            /\ host[n].files[".cache/tmp.png"] = AssetContent

\* C25: get_output_data on a repository the host holds returns its URL,
\* the identifier of its latest commit, which is the commit of the last
\* file stored, or "no commits" when it has none, and the URL of the site
\* made of the owner and the repository name alone; when the host answers
\* with an error, or holds no such repository, it returns the empty
\* mapping.  The call changes nothing on the host.
C25_QueryState ==
    [][\A j \in Jobs :
          (pc[j] = "query" /\ pc'[j] # pc[j]) =>
              LET n == RepoName(client_task[j].task)
                  d == new_data'[j]
              IN  /\ host' = host
                  /\ IF last'[j].fault \/ ~host[n].exists
                     THEN /\ \A k \in DOMAIN d : d[k] = Missing
                          /\ last'[j].message = "empty"
                     ELSE /\ DOMAIN d = {"repo_url", "commit_sha", "pages_url"}
                          /\ d.repo_url
                               = "https://github.com/" \o OWNER \o "/" \o n
                          /\ d.commit_sha
                               = IF host[n].commits = 0 THEN "no commits"
                                 ELSE n \o "@" \o ToString(host[n].commits)
                          /\ d.pages_url
                               = "https://" \o OWNER \o ".github.io/" \o n \o "/"
                          /\ last'[j].message = "data"]_vars

\* the run stored two files in a repository that had one commit and the
\* query returned the identifier of the third commit
C25_Witness ==
    \E j \in Jobs :
        LET n == RepoName(client_task[j].task)
        IN  /\ pc[j] = "payload"
            /\ last[j] = Result("get_output_data", "data", FALSE)
            /\ host[n].commits = 3
            /\ host[n].files["assets/logo.png"] = AssetContent
            /\ new_data[j].commit_sha = CommitSha(n, 3)
            /\ ~host[n].pages

====
